---- MODULE Spec2Model ----
(***************************************************************************)
(* clap-nested: Command / Commander / MultiCommand / Help of src/lib.rs.   *)
(*                                                                         *)
(* A text (String, Vec<u8>) is a sequence of atoms: NL is '\n', SP is a    *)
(* run of blanks, LB is '[', every other atom is a run of characters that  *)
(* holds none of the three.  A token is a sequence of atoms.               *)
(***************************************************************************)
EXTENDS Integers, Sequences, FiniteSets, TLC

VARIABLES stack, res, hist

vars == <<stack, res, hist>>

(* ---------------------------- bounds ----------------------------------- *)
MaxCalls == 4
MaxArgs == 2
MaxRuns == 2
MaxHist == 3
MaxMsg == 5

(* ---------------------------- values ----------------------------------- *)
None == "None"
NL == "\n"
SP == " "
LB == "["

Names == {"foo", "bar"}
Descs == {None, "about"}
OptFns == {"optD", "optE"}
ArgFns == {"d1", "d2"}
RunFns == {"ok", "fail"}

CrateName == "clap-nested"
CrateVersion == "0.2.1"
CrateAuthors == "authors"
CrateDescription == "crate description"

Unit == <<>>

Ok == [tag |-> "Ok", kind |-> None, message |-> <<>>]
Err(kind, message) == [tag |-> "Err", kind |-> kind, message |-> message]
Panic(what) == [tag |-> "Panic", kind |-> what, message |-> <<>>]

(* The closures a caller hands in.  A runner or fallback is named by its   *)
(* id; "fail" returns std::io::Error::from(ErrorKind::Other).into().       *)
CallFn(f, ctx, m) ==
    IF f = "ok" THEN Ok ELSE Err("Io", <<"other", SP, "os", SP, "error">>)

(* A deriver is a free function of (context, matches): its value records   *)
(* which deriver ran on what.                                              *)
CallArgs(d, ctx, m) ==
    IF d = None THEN ctx ELSE Append(ctx, [fn |-> d, on |-> m])

(* An option contributor adds one flag to the App it is given.            *)
FlagOf(o) == IF o = "optD" THEN "-d" ELSE "-e"

CallOpts(o, app) == [app EXCEPT !.flags = Append(@, FlagOf(o))]

(* ---------------------------- Command ---------------------------------- *)
CommandNew(name) ==
    [type |-> "Command", name |-> name, desc |-> None, opts |-> None,
     runner |-> None]

CommandDescription(c, desc) == [c EXCEPT !.desc = desc]

CommandOptions(c, opts) == [c EXCEPT !.opts = opts]

CommandRunner(c, run) == [c EXCEPT !.runner = run]

SubCommandWithName(name) ==
    [name |-> name, bin_name |-> <<>>, about |-> None, author |-> None,
     version |-> None, flags |-> <<>>, subs |-> <<>>]

AppNew(name) ==
    [SubCommandWithName(name) EXCEPT !.version = CrateVersion,
                                     !.about = CrateDescription,
                                     !.author = CrateAuthors]

CommandApp(c) ==
    LET a0 == SubCommandWithName(c.name)
        a1 == IF c.desc # None THEN [a0 EXCEPT !.about = c.desc] ELSE a0
    IN  IF c.opts # None THEN CallOpts(c.opts, a1) ELSE a1

(* ---------------------------- Commander: builder ----------------------- *)
CommanderNew ==
    [type |-> "Commander", opts |-> None, args |-> None, cmds |-> <<>>,
     no_cmd |-> None]

(* mutant: a contributor once set is kept *)
CommanderOptionsKeepFirst(c, opts) ==
    IF c.opts # None THEN c ELSE [c EXCEPT !.opts = opts]

CommanderOptions(c, opts) == [c EXCEPT !.opts = opts]

(* mutant: args() keeps the children and the fallback *)
CommanderArgsKeep(c, args) == [c EXCEPT !.args = args]

CommanderArgs(c, args) ==
    [type |-> "Commander", opts |-> c.opts, args |-> args, cmds |-> <<>>,
     no_cmd |-> None]

CommanderAddCmd(c, cmd) == [c EXCEPT !.cmds = Append(@, cmd)]

CommanderNoCmd(c, f) == [c EXCEPT !.no_cmd = f]

IntoCmd(c, name) ==
    [type |-> "MultiCommand", name |-> name, desc |-> None, cmd |-> c]

MultiCommandDescription(mc, desc) == [mc EXCEPT !.desc = desc]

(* ---------------------------- schema (clap App) ------------------------ *)
RECURSIVE CommanderApp(_)
RECURSIVE CmdApp(_)
RECURSIVE AppSubcommands(_, _, _)

(* self.cmds.iter().fold(app, |app, cmd| app.subcommand(cmd.app())) *)
AppSubcommands(app, cmds, i) ==
    IF i > Len(cmds) THEN app
    ELSE AppSubcommands([app EXCEPT !.subs = Append(@, CmdApp(cmds[i]))],
                        cmds, i + 1)

CommanderApp(c) ==
    LET a0 == AppNew(CrateName)
        a1 == IF c.opts # None THEN CallOpts(c.opts, a0) ELSE a0
    IN  AppSubcommands(a1, c.cmds, 1)

MultiCommandApp(mc) ==
    LET a0 == [CommanderApp(mc.cmd) EXCEPT !.name = mc.name]
    IN  IF mc.desc # None THEN [a0 EXCEPT !.about = mc.desc] ELSE a0

CmdApp(cmd) ==
    IF cmd.type = "Command" THEN CommandApp(cmd) ELSE MultiCommandApp(cmd)

(* Path::new(&name).file_name(): a path is its sequence of components.     *)
FileName(path) == IF Len(path) = 0 THEN None ELSE path[Len(path)]

InferBinName(app, argv) ==
    IF Len(argv) > 0 /\ FileName(argv[1]) # None /\ app.bin_name = <<>>
    THEN [app EXCEPT !.bin_name = <<FileName(argv[1])>>]
    ELSE app

(* gen_completions_to with GlobalVersion set: every subcommand gets its    *)
(* bin_name (the parent's, a blank, its name) and the parent's version.    *)
RECURSIVE PropagateGlobals(_)
PropagateGlobals(app) ==
    [app EXCEPT !.subs =
        [i \in 1..Len(app.subs) |->
            LET sc == app.subs[i]
                bn == IF sc.bin_name # <<>> THEN sc.bin_name
                      ELSE IF app.bin_name # <<>>
                           THEN app.bin_name \o <<SP, sc.name>>
                           ELSE <<app.name, sc.name>>
                v  == IF sc.version = None THEN app.version ELSE sc.version
            IN  PropagateGlobals([sc EXCEPT !.bin_name = bn, !.version = v])]]

RECURSIVE propagate_author(_, _)
propagate_author(app, author) ==
    [app EXCEPT !.author = author,
                !.subs = [i \in 1..Len(app.subs) |->
                             propagate_author(app.subs[i], author)]]

PropagateAuthor(app) ==
    IF app.author # None THEN propagate_author(app, app.author) ELSE app

(* ---------------------------- text helpers ----------------------------- *)
RECURSIVE Cat(_)
Cat(ss) == IF Len(ss) = 0 THEN <<>> ELSE Head(ss) \o Cat(Tail(ss))

Dashed(bin) == [i \in 1..Len(bin) |-> IF bin[i] = SP THEN "-" ELSE bin[i]]

UsageName(app) == IF app.bin_name # <<>> THEN app.bin_name ELSE <<app.name>>

(* usage::create_help_usage *)
HelpUsage(app) ==
    UsageName(app)
    \o (IF Len(app.flags) > 0 THEN <<SP, LB, "FLAGS]">> ELSE <<>>)
    \o (IF Len(app.subs) > 0 THEN <<SP, LB, "SUBCOMMAND]">> ELSE <<>>)

(* usage::create_smart_usage: the arguments used so far follow the name.   *)
SmartUsage(app, used) ==
    UsageName(app)
    \o Cat([i \in 1..Len(app.flags) |->
               IF \E j \in 1..Len(used) : used[j] = app.flags[i]
               THEN <<SP, app.flags[i]>> ELSE <<>>])

ErrorUsage(app, used) ==
    IF Len(used) = 0 THEN HelpUsage(app) ELSE SmartUsage(app, used)

(* App::write_help *)
WriteAppHelp(app) ==
    (IF \E i \in 1..Len(app.bin_name) : app.bin_name[i] = SP
     THEN Dashed(app.bin_name) ELSE <<app.name>>)
    \o (IF app.version # None THEN <<SP, app.version>> ELSE <<>>)
    \o <<NL>>
    \o (IF app.author # None THEN <<app.author, NL>> ELSE <<>>)
    \o (IF app.about # None THEN <<app.about, NL>> ELSE <<>>)
    \o <<NL, "USAGE:", NL, SP>> \o HelpUsage(app) \o <<NL, NL, "FLAGS:", NL>>
    \o Cat([i \in 1..Len(app.flags) |-> <<SP, app.flags[i], NL>>])
    \o <<SP, "-h,", SP, "--help", NL, SP, "-V,", SP, "--version">>
    \o (IF Len(app.subs) > 0
        THEN <<NL, NL, "SUBCOMMANDS:">>
             \o Cat([i \in 1..Len(app.subs) |->
                       <<NL, SP, app.subs[i].name>>
                       \o (IF app.subs[i].about # None
                           THEN <<SP, app.subs[i].about>> ELSE <<>>)])
        ELSE <<>>)

(* ---------------------------- Help ------------------------------------- *)
(* mutant: the children's own children are not captured *)
HelpFromShallow(app) ==
    [data |-> WriteAppHelp(app),
     cmds |-> [n \in {app.subs[i].name : i \in 1..Len(app.subs)} |->
                  LET last == CHOOSE i \in 1..Len(app.subs) :
                                /\ app.subs[i].name = n
                                /\ \A j \in (i+1)..Len(app.subs) :
                                       app.subs[j].name # n
                  IN  [data |-> WriteAppHelp(app.subs[last]), cmds |-> <<>>]]]

RECURSIVE HelpFrom(_)
(* cmds is a HashMap: a later insert under a name replaces an earlier one. *)
HelpFrom(app) ==
    [data |-> WriteAppHelp(app),
     cmds |-> [n \in {app.subs[i].name : i \in 1..Len(app.subs)} |->
                  LET last == CHOOSE i \in 1..Len(app.subs) :
                                /\ app.subs[i].name = n
                                /\ \A j \in (i+1)..Len(app.subs) :
                                       app.subs[j].name # n
                  IN  HelpFrom(app.subs[last])]]

(* ---------------------------- parser (clap) ---------------------------- *)
IsFlagToken(t) == t \in {"-d", "-e", "-x", "-h", "-V"}

FirstSub(app, t) ==
    LET hit == {i \in 1..Len(app.subs) : app.subs[i].name = t}
    IN  IF hit = {} THEN 0 ELSE CHOOSE i \in hit : \A j \in hit : i <= j

(* clap::Error messages that carry a usage section *)
ErrorMessage(what, arg, usage) ==
    <<"error:", SP, what, SP, arg, NL, NL, "USAGE:", NL, SP>> \o usage
    \o <<NL, NL, "For", SP, "more", SP, "information", SP, "try", SP, "--help">>

HasDuplicate(used) ==
    \E i, j \in 1..Len(used) : i < j /\ used[i] = used[j]

RECURSIVE ParseApp(_, _, _)
(* Parser::get_matches_with at one App: flags are collected until a        *)
(* subcommand name is met, which takes the remaining tokens; the App's own *)
(* arguments are validated after its subcommand has parsed.                *)
ParseApp(app, toks, used) ==
    LET here == [name |-> app.name,
                 args |-> {used[i] : i \in 1..Len(used)}]
        validated(m) ==
            IF HasDuplicate(used)
            THEN Err("UnexpectedMultipleUsage",
                     ErrorMessage("MultipleUsage",
                                  CHOOSE f \in {used[i] : i \in 1..Len(used)} :
                                      \E i, j \in 1..Len(used) :
                                          i < j /\ used[i] = f /\ used[j] = f,
                                  ErrorUsage(app, used)))
            ELSE [tag |-> "Matches", m |-> m]
    IN
    IF Len(toks) = 0 THEN validated(<<here>>)
    ELSE LET t == Head(toks) IN
         IF FirstSub(app, t) # 0
         THEN LET r == ParseApp(app.subs[FirstSub(app, t)], Tail(toks), <<>>)
              IN  IF r.tag = "Matches" THEN validated(<<here>> \o r.m) ELSE r
         ELSE IF t = "-h" THEN Err("HelpDisplayed", WriteAppHelp(app))
         ELSE IF t = "-V" THEN Err("VersionDisplayed", <<>>)
         ELSE IF IsFlagToken(t) /\ \E i \in 1..Len(app.flags) : app.flags[i] = t
         THEN ParseApp(app, Tail(toks), Append(used, t))
         ELSE Err("UnknownArgument",
                  ErrorMessage("UnknownArgument", t, ErrorUsage(app, used)))

(* App::get_matches_from_safe: the first argument is the binary's name.    *)
GetMatchesFromSafe(app, argv) ==
    ParseApp(app, IF Len(argv) = 0 THEN <<>> ELSE Tail(argv), <<>>)

(* ArgMatches::subcommand_matches: matches is the list of levels from the  *)
(* current App down to the deepest subcommand given; <<>> is None.         *)
SubcommandMatches(m, name) ==
    IF Len(m) > 1 /\ m[2].name = name THEN Tail(m) ELSE <<>>

(* ---------------------------- strings ---------------------------------- *)
(* str::find of one atom: 0 for None *)
Find(text, a) ==
    LET hit == {i \in 1..Len(text) : text[i] = a}
    IN  IF hit = {} THEN 0 ELSE CHOOSE i \in hit : \A j \in hit : i <= j

IsUsageAtom(a) == a \in {"USAGE:", "USAGE"}

(* msg.find("\nUSAGE"): 0 for None *)
FindUsage(text) ==
    LET hit == {i \in 1..(Len(text) - 1) :
                    text[i] = NL /\ IsUsageAtom(text[i + 1])}
    IN  IF hit = {} THEN 0 ELSE CHOOSE i \in hit : \A j \in hit : i <= j

RECURSIVE Split(_, _)
Split(text, sep) ==
    LET i == Find(text, sep)
    IN  IF i = 0 THEN <<text>>
        ELSE <<SubSeq(text, 1, i - 1)>>
             \o Split(SubSeq(text, i + 1, Len(text)), sep)

(* str::lines: a final empty line is not a line *)
Lines(text) ==
    LET p == Split(text, NL)
    IN  IF p[Len(p)] = <<>> THEN SubSeq(p, 1, Len(p) - 1) ELSE p

NonEmpty(tok) == tok # <<>>

(* str::split_whitespace *)
SplitWhitespace(text) == SelectSeq(Split(text, SP), NonEmpty)

(* ---------------------------- dispatch --------------------------------- *)
(* Commander::write_help: the text appended to out, or a panic.            *)
RECURSIVE WriteHelp(_, _, _)
WriteHelp(help, path, out) ==
    IF Len(path) = 0 THEN [tag |-> "Written", out |-> out \o help.data]
    ELSE LET segment == Head(path) IN
         IF Len(segment) = 1 /\ segment[1] \in DOMAIN help.cmds
         THEN WriteHelp(help.cmds[segment[1]], Tail(path), out)
         ELSE Panic("Bad help structure")

(* One call of a runner or of a fallback, as the run's log records it:     *)
(* `at` is the position of the node in the tree (child indices from the    *)
(* root).                                                                  *)
Call(at, kind, f, ctx, m) ==
    [at |-> at, kind |-> kind, fn |-> f, ctx |-> ctx, matches |-> m]

(* mutant: the runner's error is dropped *)
CommandRunSwallow(c, args, m, at) ==
    IF c.runner # None
    THEN [result |-> Ok,
          calls |-> <<Call(at, "runner", c.runner, args, m)>>]
    ELSE [result |-> Ok, calls |-> <<>>]

(* mutant: a Command without a runner answers with help *)
CommandRunDefaultHelp(c, args, m, at) ==
    IF c.runner # None
    THEN LET r == CallFn(c.runner, args, m)
         IN  [result |-> IF r.tag = "Err" THEN r ELSE Ok,
              calls |-> <<Call(at, "runner", c.runner, args, m)>>]
    ELSE [result |-> Err("HelpDisplayed", <<>>), calls |-> <<>>]

(* Command::run *)
CommandRun(c, args, m, at) ==
    IF c.runner # None
    THEN LET r == CallFn(c.runner, args, m)
         IN  [result |-> IF r.tag = "Err" THEN r ELSE Ok,
              calls |-> <<Call(at, "runner", c.runner, args, m)>>]
    ELSE [result |-> Ok, calls |-> <<>>]

RECURSIVE RunWithData(_, _, _, _, _)
RECURSIVE CmdRun(_, _, _, _, _)

(* mutant: the inner Commander starts from the unit context *)
MultiCommandRunUnit(mc, args, m, help, at) ==
    RunWithData(mc.cmd, Unit, m, help, at)

(* MultiCommand::run *)
MultiCommandRun(mc, args, m, help, at) ==
    RunWithData(mc.cmd, args, m, help, at)

CmdRun(cmd, args, m, help, at) ==
    IF cmd.type = "Command" THEN CommandRun(cmd, args, m, at)
    ELSE MultiCommandRun(cmd, args, m, help, at)

(* mutant: the first child runs whatever subcommand was given *)
RunWithDataAnyName(c, args0, m, help, at) ==
    LET args == CallArgs(c.args, args0, m)
    IN  IF Len(m) > 1 /\ Len(c.cmds) > 0
        THEN IF c.cmds[1].name \in DOMAIN help.cmds
             THEN CmdRun(c.cmds[1], args, Tail(m), help.cmds[c.cmds[1].name],
                         Append(at, 1))
             ELSE [result |-> Panic("unwrap on None"), calls |-> <<>>]
        ELSE IF c.no_cmd # None
        THEN [result |-> CallFn(c.no_cmd, args, m),
              calls |-> <<Call(at, "no_cmd", c.no_cmd, args, m)>>]
        ELSE [result |-> Err("HelpDisplayed", WriteHelp(help, <<>>, <<>>).out),
              calls |-> <<>>]

(* Commander::run_with_data *)
RunWithData(c, args0, m, help, at) ==
    LET args == CallArgs(c.args, args0, m)
        hit  == {i \in 1..Len(c.cmds) :
                    SubcommandMatches(m, c.cmds[i].name) # <<>>}
    IN  IF hit # {}
        THEN LET i   == CHOOSE k \in hit : \A j \in hit : k <= j
                 cmd == c.cmds[i]
             IN  IF cmd.name \in DOMAIN help.cmds
                 THEN CmdRun(cmd, args, SubcommandMatches(m, cmd.name),
                             help.cmds[cmd.name], Append(at, i))
                 ELSE [result |-> Panic("unwrap on None"), calls |-> <<>>]
        ELSE IF c.no_cmd # None
        THEN [result |-> CallFn(c.no_cmd, args, m),
              calls |-> <<Call(at, "no_cmd", c.no_cmd, args, m)>>]
        ELSE [result |-> Err("HelpDisplayed", WriteHelp(help, <<>>, <<>>).out),
              calls |-> <<>>]

(* The App run_with_args parses with: lines 370-402.                       *)
BuildApp(c, argv) ==
    PropagateAuthor(PropagateGlobals(InferBinName(CommanderApp(c), argv)))

(* mutant: a usage line without a token is taken for the root's path       *)
SubstituteHelpLenient(help, message) ==
    LET index == FindUsage(message) IN
    IF index = 0 THEN Panic("missing usage section")
    ELSE LET usage == SubSeq(message, index, Len(message))
             msg   == SubSeq(message, 1, index - 1)
             lines == Lines(usage)
             buf   == Append(msg, NL)
         IN  IF Len(lines) < 3 THEN Panic("missing usage section")
             ELSE LET line == lines[3]
                      lb   == Find(line, LB)
                      cut  == IF lb # 0 THEN SubSeq(line, 1, lb - 1) ELSE line
                      path == SplitWhitespace(cut)
                      w    == WriteHelp(help,
                                        IF Len(path) > 0 THEN Tail(path)
                                        ELSE <<>>, buf)
                  IN  IF w.tag = "Written" THEN Err("HelpDisplayed", w.out)
                      ELSE w

(* The Err(err) arm of run_with_args for an error that is neither          *)
(* HelpDisplayed nor VersionDisplayed: lines 410-450.                      *)
SubstituteHelp(help, message) ==
    LET index == FindUsage(message) IN
    IF index = 0 THEN Panic("missing usage section")
    ELSE LET usage == SubSeq(message, index, Len(message))
             msg   == SubSeq(message, 1, index - 1)
             lines == Lines(usage)
             buf   == Append(msg, NL)
         IN  IF Len(lines) < 3 THEN Panic("missing usage section")
             ELSE LET line == lines[3]
                      lb   == Find(line, LB)
                      cut  == IF lb # 0 THEN SubSeq(line, 1, lb - 1) ELSE line
                      path == SplitWhitespace(cut)
                  IN  IF Len(path) > 0
                      THEN LET w == WriteHelp(help, Tail(path), buf)
                           IN  IF w.tag = "Written"
                               THEN Err("HelpDisplayed", w.out)
                               ELSE w
                      ELSE Panic("missing usage section")

(* mutant: a request for help or version is rewritten like any error *)
RunWithArgsRewriteAll(c, argv) ==
    LET app  == BuildApp(c, argv)
        help == HelpFrom(app)
        p    == GetMatchesFromSafe(app, argv)
    IN  IF p.tag = "Matches"
        THEN LET r == RunWithData(c, Unit, p.m, help, <<>>)
             IN  [argv |-> argv, result |-> r.result, calls |-> r.calls,
                  runs |-> 1]
        ELSE [argv |-> argv,
              result |-> Err("HelpDisplayed", p.message \o help.data),
              calls |-> <<>>, runs |-> 1]

(* Commander::run_with_args: what it returns and the calls it makes.       *)
RunWithArgs(c, argv) ==
    LET app  == BuildApp(c, argv)
        help == HelpFrom(app)
        p    == GetMatchesFromSafe(app, argv)
    IN  IF p.tag = "Matches"
        THEN LET r == RunWithData(c, Unit, p.m, help, <<>>)
             IN  [argv |-> argv, result |-> r.result, calls |-> r.calls,
                  runs |-> 1]
        ELSE [argv |-> argv,
              result |-> IF p.kind \in {"HelpDisplayed", "VersionDisplayed"}
                         THEN p
                         ELSE SubstituteHelp(help, p.message),
              calls |-> <<>>, runs |-> 1]

(* ---------------------------- inputs ----------------------------------- *)
(* The Commands a caller builds: Command::new(n) and then any of           *)
(* description, options and runner (None: the setter is not called).       *)
Commands ==
    {CommandRunner(
         CommandOptions(CommandDescription(CommandNew(n), d), o), r) :
        n \in Names, d \in Descs, o \in {None, "optD"},
        r \in {None} \cup RunFns}

ProgPath == <<"bin", "program">>

Tokens == Names \cup {"-d", "-h", "-V"}

RECURSIVE SeqsUpTo(_, _)
SeqsUpTo(S, n) ==
    IF n = 0 THEN {<<>>}
    ELSE LET shorter == SeqsUpTo(S, n - 1)
         IN  shorter \cup {Append(q, x) : q \in shorter, x \in S}

(* Argument lists: none at all, or the program's path and up to MaxArgs    *)
(* tokens.                                                                 *)
Argvs == {<<>>} \cup {<<ProgPath>> \o q : q \in SeqsUpTo(Tokens, MaxArgs)}

(* ---------------------------- state ------------------------------------ *)
(* stack: the Commanders under construction, the root first; the last may  *)
(* be a MultiCommand not yet added to the one before it.                   *)
(* res: the outcome of the last run_with_args on the root as it is now.    *)
(* hist: the builder calls made on the root so far (where recorded), or    *)
(* the parser's error where the Err arm is specified alone.                *)
(* runs: how many times in a row that run was made.                        *)
NoRun == [argv |-> <<>>, result |-> Panic("no run"), calls |-> <<>>,
          runs |-> 0]

Top == stack[Len(stack)]

SetTop(c) == [stack EXCEPT ![Len(stack)] = c]

Set(x) == IF x = None THEN 0 ELSE 1

(* The number of builder calls that made a value: one for each Command and *)
(* each into_cmd, one for each setting that is set.                        *)
RECURSIVE Calls(_)
RECURSIVE CallsOf(_, _)
CallsOf(cmds, i) ==
    IF i > Len(cmds) THEN 0 ELSE Calls(cmds[i]) + CallsOf(cmds, i + 1)

Calls(x) ==
    IF x.type = "Command"
    THEN 1 + Set(x.desc) + Set(x.opts) + Set(x.runner)
    ELSE IF x.type = "MultiCommand" THEN 1 + Set(x.desc) + Calls(x.cmd)
    ELSE Set(x.opts) + Set(x.args) + Set(x.no_cmd) + CallsOf(x.cmds, 1)

RECURSIVE StackCalls(_, _)
StackCalls(st, i) ==
    IF i > Len(st) THEN 0
    ELSE Calls(st[i])
         + (IF i > 1 /\ st[i].type = "Commander" THEN 1 ELSE 0)
         + StackCalls(st, i + 1)

Bounded(st) == StackCalls(st, 1) <= MaxCalls

Init == stack = <<CommanderNew>> /\ res = NoRun /\ hist = <<>>

(* Commander::new() for a group to be nested *)
NewStep ==
    /\ Top.type = "Commander"
    /\ stack' = Append(stack, CommanderNew)
    /\ Bounded(stack')
    /\ res' = NoRun

OptionsStep(o) ==
    /\ Top.type = "Commander"
    /\ stack' = SetTop(CommanderOptions(Top, o))
    /\ Bounded(stack')
    /\ res' = NoRun

ArgsStep(d) ==
    /\ Top.type = "Commander"
    /\ stack' = SetTop(CommanderArgs(Top, d))
    /\ Bounded(stack')
    /\ res' = NoRun

AddCmdStep(cmd) ==
    /\ Top.type = "Commander"
    /\ stack' = SetTop(CommanderAddCmd(Top, cmd))
    /\ Bounded(stack')
    /\ res' = NoRun

NoCmdStep(f) ==
    /\ Top.type = "Commander"
    /\ stack' = SetTop(CommanderNoCmd(Top, f))
    /\ Bounded(stack')
    /\ res' = NoRun

IntoCmdStep(name) ==
    /\ Len(stack) > 1
    /\ Top.type = "Commander"
    /\ stack' = SetTop(IntoCmd(Top, name))
    /\ res' = NoRun

DescriptionStep(desc) ==
    /\ Top.type = "MultiCommand"
    /\ stack' = SetTop(MultiCommandDescription(Top, desc))
    /\ Bounded(stack')
    /\ res' = NoRun

(* add_cmd of the MultiCommand just converted *)
AddMultiStep ==
    /\ Top.type = "MultiCommand"
    /\ stack' = Append(SubSeq(stack, 1, Len(stack) - 2),
                       CommanderAddCmd(stack[Len(stack) - 1], Top))
    /\ res' = NoRun

(* mutant: a run uses the fallback up *)
RunStepConsuming(argv) ==
    /\ Len(stack) = 1
    /\ res' = [RunWithArgs(stack[1], argv) EXCEPT !.runs = res.runs + 1]
    /\ stack' = <<CommanderNoCmd(stack[1], None)>>

(* run_with_args on the root: &self, so the registry stays as it is.       *)
RunStep(argv) ==
    /\ Len(stack) = 1
    /\ res' = [RunWithArgs(stack[1], argv) EXCEPT !.runs = res.runs + 1]
    /\ UNCHANGED stack

(* The caller: a registry is built, then run; a run may be repeated with   *)
(* the argument list of the run before it.                                 *)
Building == res = NoRun

New == Building /\ NewStep /\ UNCHANGED hist
Options(o) == Building /\ OptionsStep(o) /\ UNCHANGED hist
Args(d) == Building /\ ArgsStep(d) /\ UNCHANGED hist
AddCmd(cmd) == Building /\ AddCmdStep(cmd) /\ UNCHANGED hist
NoCmd(f) == Building /\ NoCmdStep(f) /\ UNCHANGED hist
IntoCmdNamed(name) == Building /\ IntoCmdStep(name) /\ UNCHANGED hist
Description(desc) == Building /\ DescriptionStep(desc) /\ UNCHANGED hist
AddMultiCmd == Building /\ AddMultiStep /\ UNCHANGED hist
Run(argv) == Building /\ RunStep(argv) /\ UNCHANGED hist
RunAgain ==
    ~Building /\ res.runs < MaxRuns /\ RunStep(res.argv) /\ UNCHANGED hist

Next ==
    \/ New
    \/ \E o \in {"optD"} : Options(o)
    \/ \E d \in ArgFns : Args(d)
    \/ \E cmd \in Commands : AddCmd(cmd)
    \/ \E f \in RunFns : NoCmd(f)
    \/ \E n \in Names : IntoCmdNamed(n)
    \/ \E d \in Descs \ {None} : Description(d)
    \/ AddMultiCmd
    \/ \E argv \in Argvs : Run(argv)
    \/ RunAgain

Spec == Init /\ [][Next]_vars

(* The builder alone, on the root, with every call recorded in hist.       *)
BuildCommands == {c \in Commands : c.desc = None /\ c.runner = None}

Record(op, arg) ==
    /\ Len(stack) = 1
    /\ Len(hist) < MaxHist
    /\ hist' = Append(hist, [op |-> op, arg |-> arg])

RecordedOptions(o) == OptionsStep(o) /\ Record("options", o)
RecordedArgs(d) == ArgsStep(d) /\ Record("args", d)
RecordedAddCmd(cmd) == AddCmdStep(cmd) /\ Record("add_cmd", cmd)
RecordedNoCmd(f) == NoCmdStep(f) /\ Record("no_cmd", f)

NextBuild ==
    \/ \E o \in OptFns : RecordedOptions(o)
    \/ \E d \in ArgFns : RecordedArgs(d)
    \/ \E cmd \in BuildCommands : RecordedAddCmd(cmd)
    \/ \E f \in RunFns : RecordedNoCmd(f)

SpecBuild == Init /\ [][NextBuild]_vars

(* The Err(err) arm of run_with_args alone: the parser is a collaborator,  *)
(* and the error it hands back is an input.  hist holds that error.        *)
MsgAtoms == {NL, SP, LB, "USAGE:", "program", "foo"}

Messages == SeqsUpTo(MsgAtoms, MaxMsg)

ParseErrorKinds == {"UnknownArgument", "HelpDisplayed"}

RewriteRoots ==
    {CommanderNew, CommanderAddCmd(CommanderNew, CommandNew("foo"))}

(* match app.get_matches_from_safe(args) { Err(err) => ... } *)
ErrArm(c, argv, err) ==
    [argv |-> argv,
     result |-> IF err.kind \in {"HelpDisplayed", "VersionDisplayed"}
                THEN err
                ELSE SubstituteHelp(HelpFrom(BuildApp(c, argv)), err.message),
     calls |-> <<>>, runs |-> 1]

InitRewrite ==
    /\ stack \in {<<c>> : c \in RewriteRoots}
    /\ hist \in {<<[op |-> "parse_error", arg |-> Err(k, m)]>> :
                    k \in ParseErrorKinds, m \in Messages}
    /\ res = NoRun

Rewrite ==
    /\ res = NoRun
    /\ res' = ErrArm(stack[1], <<ProgPath>>, hist[1].arg)
    /\ UNCHANGED <<stack, hist>>

NextRewrite == Rewrite

SpecRewrite == InitRewrite /\ [][NextRewrite]_vars

(* ======================================================================= *)
(* Properties.  What follows reads the state; it is no part of the model.  *)
(* ======================================================================= *)
Root == stack[1]

Ran == res # NoRun

(* What the parser made of the argument list of the last run. *)
Parsed == GetMatchesFromSafe(BuildApp(Root, res.argv), res.argv)

ParsedOk == Ran /\ Parsed.tag = "Matches"

Snapshot == HelpFrom(BuildApp(Root, res.argv))

IndicesNamed(c, n) == {i \in 1..Len(c.cmds) : c.cmds[i].name = n}

(* The node of the tree at a position: child indices from the root. *)
RECURSIVE NodeAt(_, _)
NodeAt(c, at) ==
    IF Len(at) = 0 THEN c
    ELSE LET child == c.cmds[Head(at)]
         IN  IF Len(at) = 1 THEN child
             ELSE NodeAt(child.cmd, Tail(at))

(* The Commander a position stands for: a MultiCommand's inner one. *)
CommanderAt(c, at) ==
    LET x == NodeAt(c, at)
    IN  IF x.type = "MultiCommand" THEN x.cmd ELSE x

(* The position the parsed levels m select below Commander c: at each     *)
(* level the first child with the name given, while one is given.         *)
RECURSIVE Selected(_, _)
Selected(c, m) ==
    IF Len(m) = 1 \/ IndicesNamed(c, m[2].name) = {} THEN <<>>
    ELSE LET i == CHOOSE k \in IndicesNamed(c, m[2].name) :
                     \A j \in IndicesNamed(c, m[2].name) : k <= j
         IN  IF c.cmds[i].type = "MultiCommand"
             THEN <<i>> \o Selected(c.cmds[i].cmd, Tail(m))
             ELSE <<i>>

(* The parsed levels as the node k levels down sees them. *)
MatchesAt(m, k) == SubSeq(m, k + 1, Len(m))

(* The context a runner or fallback of the Commander at position `at`     *)
(* must see: each Commander on the way applies its deriver to the context *)
(* from above and to its own level of the parsed arguments.               *)
RECURSIVE Derived(_, _, _, _)
Derived(c, at, ctx, m) ==
    LET here == IF c.args = None THEN ctx
                ELSE Append(ctx, [fn |-> c.args, on |-> m])
    IN  IF Len(at) = 0 \/ c.cmds[Head(at)].type = "Command" THEN here
        ELSE Derived(c.cmds[Head(at)].cmd, Tail(at), here, Tail(m))

(* The names on the way to a position. *)
RECURSIVE NamePath(_, _)
NamePath(c, at) ==
    IF Len(at) = 0 THEN <<>>
    ELSE LET child == c.cmds[Head(at)]
         IN  <<child.name>>
             \o (IF child.type = "MultiCommand"
                 THEN NamePath(child.cmd, Tail(at)) ELSE <<>>)

(* The Help Snapshot node a path of names leads to; one without text     *)
(* where the Snapshot has no such path.                                   *)
RECURSIVE HelpAt(_, _)
HelpAt(help, names) ==
    IF Len(names) = 0 THEN help
    ELSE IF Head(names) \in DOMAIN help.cmds
    THEN HelpAt(help.cmds[Head(names)], Tail(names))
    ELSE [data |-> <<>>, cmds |-> <<>>]

(* The schema node at a position. *)
RECURSIVE AppAt(_, _)
AppAt(app, at) ==
    IF Len(at) = 0 THEN app ELSE AppAt(app.subs[Head(at)], Tail(at))

(* No two children share a name, at any Commander on the way. *)
RECURSIVE UniqueOnPath(_, _)
UniqueOnPath(c, at) ==
    IF Len(at) = 0 THEN TRUE
    ELSE /\ Cardinality(IndicesNamed(c, c.cmds[Head(at)].name)) = 1
         /\ \/ c.cmds[Head(at)].type = "Command"
            \/ UniqueOnPath(c.cmds[Head(at)].cmd, Tail(at))

IsPrefix(p, q) == Len(p) <= Len(q) /\ SubSeq(q, 1, Len(p)) = p

(* ---------------------------- C1 --------------------------------------- *)
(* The arguments of the last run name, first, a child registered once.    *)
C1_Case(i) ==
    /\ ParsedOk
    /\ Len(res.argv) >= 2
    /\ i \in 1..Len(Root.cmds)
    /\ Root.cmds[i].name = res.argv[2]
    /\ Cardinality(IndicesNamed(Root, res.argv[2])) = 1

(* C1: when the first argument names a child registered exactly once and  *)
(* the rest parses, that child is what runs, with the sub-matches of its  *)
(* name and the context the root derived: a Command's runner is called    *)
(* once (or, with no runner, nothing is called and the run succeeds), a   *)
(* MultiCommand dispatches into its own Commander; no call is made by any *)
(* other child or by the root's fallback, whatever the siblings are.      *)
C1_DispatchByName ==
    \A i \in 1..Len(Root.cmds) :
        C1_Case(i) =>
            LET child == Root.cmds[i]
                ctx   == CallArgs(Root.args, Unit, Parsed.m)
                sub   == Tail(Parsed.m)
            IN  /\ sub[1].name = child.name
                /\ \A k \in 1..Len(res.calls) :
                       IsPrefix(<<i>>, res.calls[k].at)
                /\ child.type = "Command" /\ child.runner # None =>
                       /\ res.calls =
                            <<Call(<<i>>, "runner", child.runner, ctx, sub)>>
                       /\ res.result = CallFn(child.runner, ctx, sub)
                /\ child.type = "Command" /\ child.runner = None =>
                       res.calls = <<>> /\ res.result = Ok
                /\ child.type = "MultiCommand" =>
                       /\ LET r == RunWithData(child.cmd, ctx, sub,
                                               Snapshot.cmds[child.name],
                                               <<i>>)
                          IN  res.result = r.result /\ res.calls = r.calls
                       /\ Len(res.calls) <= 1
                       /\ \A k \in 1..Len(res.calls) :
                              /\ res.calls[k].at = Selected(Root, Parsed.m)
                              /\ res.calls[k].matches =
                                   MatchesAt(Parsed.m,
                                       Len(NamePath(Root, res.calls[k].at)))

(* A second child, registered after another one, ran its runner with a    *)
(* flag of its own among the sub-arguments.                               *)
C1_Witness ==
    /\ C1_Case(2)
    /\ Root.cmds[2].type = "Command"
    /\ Len(res.calls) = 1
    /\ res.calls[1].matches[1].args # {}

(* ---------------------------- C2 --------------------------------------- *)
(* The last run parsed, and dispatch ended at a Commander without a       *)
(* fallback, none of whose children the arguments select.                 *)
C2_Case ==
    /\ ParsedOk
    /\ LET at == Selected(Root, Parsed.m)
       IN  /\ NodeAt(Root, at).type # "Command"
           /\ Len(NamePath(Root, at)) = Len(Parsed.m) - 1
           /\ CommanderAt(Root, at).no_cmd = None

(* C2: a Commander without a fallback, root or nested, none of whose      *)
(* children is selected, answers HelpDisplayed with the text the Help     *)
(* Snapshot holds at its own path of names, and nothing is called; where  *)
(* no sibling on the way shares a name, that text is the help rendered    *)
(* from the Commander's own schema node.                                  *)
C2_HelpOfOwnPath ==
    C2_Case =>
        LET at == Selected(Root, Parsed.m)
        IN  /\ res.result =
                 Err("HelpDisplayed",
                     HelpAt(Snapshot, NamePath(Root, at)).data)
            /\ res.calls = <<>>
            /\ UniqueOnPath(Root, at) =>
                   res.result.message =
                       WriteAppHelp(AppAt(BuildApp(Root, res.argv), at))

(* A nested Commander without a fallback answered with its own help.      *)
C2_Witness ==
    /\ C2_Case
    /\ Len(Selected(Root, Parsed.m)) >= 1
    /\ UniqueOnPath(Root, Selected(Root, Parsed.m))
    /\ res.result.kind = "HelpDisplayed"

(* ---------------------------- C3 --------------------------------------- *)
(* C3: every runner and every fallback is called with the context that    *)
(* the derivers of the Commanders above it compose, from the unit at the  *)
(* root down: each deriver is applied to the context from above and to    *)
(* its own level of the parsed arguments, a Commander whose args() was    *)
(* never called passes the context on, and a MultiCommand hands the outer *)
(* context to its inner Commander as it is.                               *)
C3_ContextComposes ==
    ParsedOk =>
        \A k \in 1..Len(res.calls) :
            res.calls[k].ctx =
                Derived(Root, res.calls[k].at, Unit, Parsed.m)

(* A fallback inside a nested Commander was called with the context of    *)
(* two derivers, or with that of the inner one alone.                     *)
C3_Witness ==
    /\ ParsedOk
    /\ Len(res.calls) = 1
    /\ Len(res.calls[1].at) >= 1
    /\ NodeAt(Root, <<res.calls[1].at[1]>>).type = "MultiCommand"
    /\ Root.args # None
    /\ NodeAt(Root, <<res.calls[1].at[1]>>).cmd.args # None
    /\ Len(res.calls[1].ctx) = 2

(* ---------------------------- C4 --------------------------------------- *)
(* C4: when the runner or fallback that a run called returned an error,   *)
(* that error is the result of the run.                                   *)
C4_ErrorUnchanged ==
    Ran =>
        \A k \in 1..Len(res.calls) :
            LET e == CallFn(res.calls[k].fn, res.calls[k].ctx,
                            res.calls[k].matches)
            IN  e.tag = "Err" => res.result = e

(* A runner below a MultiCommand failed, and so did a fallback.           *)
C4_Witness ==
    /\ Ran
    /\ Len(res.calls) = 1
    /\ Len(res.calls[1].at) = 2
    /\ res.calls[1].kind = "runner"
    /\ res.calls[1].fn = "fail"
    /\ res.result.tag = "Err"

(* ---------------------------- C5 --------------------------------------- *)
(* The parser refused the arguments of the last run, for another reason   *)
(* than a request for help or for the version.                            *)
C5_Case ==
    /\ Ran
    /\ Parsed.tag = "Err"
    /\ Parsed.kind \notin {"HelpDisplayed", "VersionDisplayed"}

HasLB(tok) == \E i \in 1..Len(tok) : tok[i] = LB

(* The tokens of a usage line after the first, up to the first '['.       *)
RECURSIVE UpToLB(_)
UpToLB(toks) ==
    IF Len(toks) = 0 THEN <<>>
    ELSE IF HasLB(Head(toks))
    THEN (IF Head(toks)[1] = LB THEN <<>>
          ELSE <<SubSeq(Head(toks), 1, Find(Head(toks), LB) - 1)>>)
    ELSE <<Head(toks)>> \o UpToLB(Tail(toks))

UsageLine(message) ==
    LET ls == Lines(SubSeq(message, FindUsage(message), Len(message)))
    IN  IF FindUsage(message) = 0 \/ Len(ls) < 3 THEN <<>> ELSE ls[3]

UsagePath(message) ==
    LET toks == SplitWhitespace(UsageLine(message))
    IN  IF Len(toks) = 0 THEN <<>> ELSE UpToLB(Tail(toks))

TokenName(tok) == IF Len(tok) = 1 THEN tok[1] ELSE "?"

(* C5: every parse error that is not a request for help or version comes  *)
(* back as HelpDisplayed, its message the parser's text before the USAGE  *)
(* section and then the Help Snapshot text of the node at the path the    *)
(* usage line names; nothing is called.                                   *)
C5_SubstitutedHelp ==
    C5_Case =>
        LET msg  == Parsed.message
            path == UsagePath(msg)
            at   == [k \in 1..Len(path) |-> TokenName(path[k])]
        IN  /\ FindUsage(msg) # 0
            /\ res.result =
                 Err("HelpDisplayed",
                     SubSeq(msg, 1, FindUsage(msg)) \o HelpAt(Snapshot, at).data)
            /\ res.calls = <<>>

(* ---------------------------- C6 --------------------------------------- *)
C6_Case ==
    /\ Ran
    /\ Parsed.tag = "Err"
    /\ Parsed.kind \in {"HelpDisplayed", "VersionDisplayed"}

(* C6: when the parser reports HelpDisplayed or VersionDisplayed, the run *)
(* returns the parser's error, kind and message as they are, and nothing  *)
(* is called.                                                             *)
C6_HelpVersionAsIs ==
    C6_Case => res.result = Parsed /\ res.calls = <<>>

(* Help was asked of a subcommand, and the parser's help of it came back. *)
C6_Witness ==
    /\ C6_Case
    /\ Len(res.argv) = 3
    /\ res.result.kind = "HelpDisplayed"
    /\ res.result.message # <<>>

C9_Case ==
    /\ ParsedOk
    /\ LET at == Selected(Root, Parsed.m)
       IN  /\ NodeAt(Root, at).type # "Command"
           /\ Len(NamePath(Root, at)) = Len(Parsed.m) - 1
           /\ CommanderAt(Root, at).no_cmd # None

(* C9: a fallback is called exactly when the arguments parsed and name no *)
(* child of its Commander: then once, with the context derived there and  *)
(* that Commander's parsed arguments, its result being the run's; and a   *)
(* fallback is called in no other case.                                   *)
C9_FallbackIffUnmatched ==
    /\ C9_Case =>
           LET at == Selected(Root, Parsed.m)
               c  == Call(at, "no_cmd", CommanderAt(Root, at).no_cmd,
                          Derived(Root, at, Unit, Parsed.m),
                          MatchesAt(Parsed.m, Len(at)))
           IN  /\ res.calls = <<c>>
               /\ res.result = CallFn(c.fn, c.ctx, c.matches)
    /\ Ran =>
           \A k \in 1..Len(res.calls) :
               res.calls[k].kind = "no_cmd" => C9_Case

(* ---------------------------- C8 --------------------------------------- *)
(* The index in hist of the last args() call, 0 if there is none.         *)
LastCall(op) ==
    LET is == {i \in 1..Len(hist) : hist[i].op = op}
    IN  IF is = {} THEN 0 ELSE CHOOSE i \in is : \A j \in is : j <= i

IsAddCmd(h) == h.op = "add_cmd"

AddedSinceArgs ==
    LET since == SubSeq(hist, LastCall("args") + 1, Len(hist))
        adds  == SelectSeq(since, IsAddCmd)
    IN  [k \in 1..Len(adds) |-> adds[k].arg]

(* C8: after any builder calls, the children are the add_cmd entries made *)
(* since the last args(), in call order, the fallback is the last no_cmd  *)
(* made since then (or none), the deriver is that of the last args() (or  *)
(* the identity), and the option contributor is the last options() of all *)
(* the calls: args() does not drop it.                                    *)
C8_ArgsResets ==
    /\ Root.cmds = AddedSinceArgs
    /\ Root.no_cmd = IF LastCall("no_cmd") > LastCall("args")
                     THEN hist[LastCall("no_cmd")].arg ELSE None
    /\ Root.args = IF LastCall("args") > 0
                   THEN hist[LastCall("args")].arg ELSE None
    /\ Root.opts = IF LastCall("options") > 0
                   THEN hist[LastCall("options")].arg ELSE None

(* args() was called on a Commander that had a child, and a child was     *)
(* added after it.                                                        *)
C8_Witness ==
    /\ LastCall("args") > 1
    /\ hist[LastCall("args") - 1].op = "add_cmd"
    /\ LastCall("add_cmd") > LastCall("args")
    /\ Len(Root.cmds) = 1

(* ---------------------------- C10 -------------------------------------- *)
AppFlags(app) == {app.flags[i] : i \in 1..Len(app.flags)}

ChildrenSchemasOwn ==
    \A k \in 1..Len(Root.cmds) :
        CommanderApp(Root).subs[k].flags =
            IF Root.cmds[k].opts = None THEN <<>>
            ELSE <<FlagOf(Root.cmds[k].opts)>>

(* C10 as claimed: the schema the Commander builds carries what every     *)
(* options() call so far contributed, and the children's schemas carry    *)
(* only their own.                                                        *)
C10_OptionsMerge ==
    /\ \A i \in 1..Len(hist) :
           hist[i].op = "options" =>
               FlagOf(hist[i].arg) \in AppFlags(CommanderApp(Root))
    /\ ChildrenSchemasOwn

(* C10 amended: options() sets the Commander's one contributor, replacing *)
(* an earlier one; the schema the Commander builds carries what the last  *)
(* options() call contributed and nothing of the earlier ones, and the    *)
(* children's schemas carry only their own.                               *)
C10_OptionsReplace ==
    /\ CommanderApp(Root).flags =
           IF LastCall("options") = 0 THEN <<>>
           ELSE <<FlagOf(hist[LastCall("options")].arg)>>
    /\ ChildrenSchemasOwn

(* options() was called twice with different contributors on a Commander  *)
(* that then got a child with a contributor of its own.                   *)
C10_Witness ==
    /\ \E i, j \in 1..Len(hist) :
           /\ i < j
           /\ hist[i].op = "options"
           /\ hist[j].op = "options"
           /\ hist[i].arg # hist[j].arg
    /\ Len(Root.cmds) = 1
    /\ Root.cmds[1].opts # None

(* ---------------------------- C11 -------------------------------------- *)
(* Every segment of a path is a key of the Help Snapshot, level by level. *)
RECURSIVE Resolves(_, _)
Resolves(help, path) ==
    \/ Len(path) = 0
    \/ /\ Len(Head(path)) = 1
       /\ Head(path)[1] \in DOMAIN help.cmds
       /\ Resolves(help.cmds[Head(path)[1]], Tail(path))

EndsWith(text, tail) ==
    /\ Len(tail) <= Len(text)
    /\ SubSeq(text, Len(text) - Len(tail) + 1, Len(text)) = tail

(* The parser refused the arguments, the usage line of its message is     *)
(* there and starts with a token, and some segment of the path after that *)
(* token is no child in the Help Snapshot.                                *)
C11_Case ==
    /\ C5_Case
    /\ FindUsage(Parsed.message) # 0
    /\ SplitWhitespace(UsageLine(Parsed.message)) # <<>>
    /\ ~Resolves(Snapshot, UsagePath(Parsed.message))

(* C11: when a segment of the usage path resolves to no child in the Help *)
(* Snapshot, the run does not panic: it returns HelpDisplayed, the        *)
(* message holding the parser's text before the USAGE section and then    *)
(* the root's help text; nothing is called.                               *)
C11_FallsBackToRoot ==
    C11_Case =>
        /\ res.result.tag = "Err"
        /\ res.result.kind = "HelpDisplayed"
        /\ IsPrefix(SubSeq(Parsed.message, 1, FindUsage(Parsed.message) - 1),
                    res.result.message)
        /\ EndsWith(res.result.message, Snapshot.data)
        /\ res.calls = <<>>

(* ---------------------------- C12 -------------------------------------- *)
GivenError == hist[1].arg

(* The parser's error is no request for help or version, and its message  *)
(* has no USAGE section, or no third line after it, or no token on that   *)
(* line.                                                                  *)
C12_Case ==
    /\ res.runs > 0
    /\ GivenError.kind \notin {"HelpDisplayed", "VersionDisplayed"}
    /\ \/ FindUsage(GivenError.message) = 0
       \/ Len(Lines(SubSeq(GivenError.message, FindUsage(GivenError.message),
                           Len(GivenError.message)))) < 3
       \/ SplitWhitespace(UsageLine(GivenError.message)) = <<>>

(* C12: a parse error, not a request for help or version, whose message   *)
(* has no USAGE section, or whose usage line is absent or has no tokens,  *)
(* makes the run panic: it returns neither Ok nor an error value, and     *)
(* nothing is called.                                                     *)
C12_MissingUsagePanics ==
    C12_Case => res.result.tag = "Panic" /\ res.calls = <<>>

(* The USAGE section is there and its usage line holds blanks only.       *)
C12_Witness ==
    /\ C12_Case
    /\ FindUsage(GivenError.message) # 0
    /\ UsageLine(GivenError.message) # <<>>
    /\ res.result.tag = "Panic"

(* ---------------------------- C13 -------------------------------------- *)
(* C13: dispatch takes, at each Commander, the first registered child     *)
(* whose name the parsed arguments give and nothing after it, so a run    *)
(* makes at most one call, and that call is made at the position the      *)
(* first matches lead to, also where two children share a name; when that *)
(* position is a Command, its runner is called once and the run returns   *)
(* the runner's result, or Ok without a call when it has no runner.       *)
C13_FirstMatchOnly ==
    ParsedOk =>
        LET at   == Selected(Root, Parsed.m)
            node == NodeAt(Root, at)
            ctx  == Derived(Root, at, Unit, Parsed.m)
            sub  == MatchesAt(Parsed.m, Len(at))
        IN  /\ Len(res.calls) <= 1
            /\ \A k \in 1..Len(res.calls) : res.calls[k].at = at
            /\ node.type = "Command" /\ node.runner # None =>
                   /\ res.calls = <<Call(at, "runner", node.runner, ctx, sub)>>
                   /\ res.result = CallFn(node.runner, ctx, sub)
            /\ node.type = "Command" /\ node.runner = None =>
                   res.calls = <<>> /\ res.result = Ok

(* ---------------------------- C14 -------------------------------------- *)
SubNames(app) == {app.subs[i].name : i \in 1..Len(app.subs)}

(* The last registered sub-schema of a name. *)
LastNamed(app, n) ==
    CHOOSE i \in 1..Len(app.subs) :
        /\ app.subs[i].name = n
        /\ \A j \in 1..Len(app.subs) : app.subs[j].name = n => j <= i

(* A Help node mirrors a schema node: its text is the help rendered from  *)
(* that node and holds the author, its keys are that node's sub-schema    *)
(* names, and the node under each key mirrors the sub-schema of that name *)
(* (the last registered one, should a name be shared).                    *)
RECURSIVE Mirrors(_, _)
Mirrors(help, app) ==
    /\ help.data = WriteAppHelp(app)
    /\ Find(help.data, CrateAuthors) # 0
    /\ DOMAIN help.cmds = SubNames(app)
    /\ \A n \in SubNames(app) :
           Mirrors(help.cmds[n], app.subs[LastNamed(app, n)])

C15_Case ==
    /\ ParsedOk
    /\ LET at == Selected(Root, Parsed.m)
       IN  /\ Len(at) >= 1
           /\ NodeAt(Root, at).type = "Command"
           /\ Resolves(Snapshot,
                       [k \in 1..Len(at) |-> <<NamePath(Root, at)[k]>>])

(* C15: Command::run with a runner calls it once, with the context handed *)
(* down and the sub-arguments matched under the Command's name, and the   *)
(* run returns what the runner returned, Ok or error; without a runner it *)
(* returns Ok, and the run is Ok with no call made: no fallback, no help. *)
(* No runner is called in any other way.                                  *)
C15_CommandRun ==
    /\ C15_Case =>
           LET at  == Selected(Root, Parsed.m)
               c   == NodeAt(Root, at)
               ctx == Derived(Root, at, Unit, Parsed.m)
               sub == MatchesAt(Parsed.m, Len(at))
           IN  /\ sub[1].name = c.name
               /\ c.runner # None =>
                      /\ res.calls = <<Call(at, "runner", c.runner, ctx, sub)>>
                      /\ res.result = CallFn(c.runner, ctx, sub)
               /\ c.runner = None => res.calls = <<>> /\ res.result = Ok
    /\ Ran =>
           \A k \in 1..Len(res.calls) :
               res.calls[k].kind = "runner" =>
                   /\ C15_Case
                   /\ res.calls[k].at = Selected(Root, Parsed.m)

(* A Command without a runner, below a nested Commander that has a        *)
(* fallback, was run: Ok, and the fallback was not called.                *)
C15_Witness ==
    /\ C15_Case
    /\ Len(Selected(Root, Parsed.m)) = 2
    /\ NodeAt(Root, Selected(Root, Parsed.m)).runner = None
    /\ Root.cmds[Selected(Root, Parsed.m)[1]].cmd.no_cmd # None
    /\ res.result = Ok
    /\ res.calls = <<>>

(* ---------------------------- C16 -------------------------------------- *)
(* C16: whenever the arguments parse, no Help Snapshot lookup of dispatch *)
(* fails, and every nested Commander that dispatch enters is handed the   *)
(* Help rendered from its own schema node, in every tree the builder can  *)
(* make, those with two children of one name included.                    *)
C16_LookupOwnHelp ==
    ParsedOk =>
        /\ res.result # Panic("unwrap on None")
        /\ LET at == Selected(Root, Parsed.m)
           IN  \A k \in 1..Len(at) :
                   NodeAt(Root, SubSeq(at, 1, k)).type = "MultiCommand" =>
                       HelpAt(Snapshot, NamePath(Root, SubSeq(at, 1, k))) =
                           HelpFrom(AppAt(BuildApp(Root, res.argv),
                                          SubSeq(at, 1, k)))

====
